---- MODULE Spec2Model ----
(***************************************************************************)
(* Model of thumb.py: the directory walker (process_videos_in_directory),  *)
(* the per-video pipeline (create_thumbnail_grid), the placeholder writer  *)
(* (save_black_image) and the grid sizer (find_closest_numbers).           *)
(*                                                                         *)
(* Abstractions.  An image is its shape <<height, width, channels>>.  A    *)
(* file name is the pair (root, ext) that os.path.splitext yields.  The    *)
(* file system is the map from a video root to the content stored at       *)
(* <root>_thumbnail.png.  The frame rate is an integer and a duration is   *)
(* the exact rational num/den.  cv2.imwrite is taken to succeed.  The      *)
(* decoder is an environment: each read either fails, yields a frame of    *)
(* some shape, or raises cv2.error; cv2.hconcat / cv2.vconcat raise        *)
(* cv2.error when OpenCV's own size checks fail, or spuriously.            *)
(***************************************************************************)
EXTENDS Integers, Sequences, FiniteSets, TLC

VARIABLES
  files,          \* os.listdir result
  video_files,    \* the filtered listing
  idx,            \* position of the for loop over video_files (1-based)
  wpc,            \* walker position: "list", "loop", "done"
  finished,       \* files for which "<path> finished" was printed
  state,          \* pipeline position / terminal state of the current call
  video_name,     \* splitext(basename(video_path))[0]
  cap,            \* "none", "open", "failed" (isOpened false), "released"
  fps, total_frames, width,
  grid_size,      \* <<columns, rows>>
  frame_interval,
  current_frame,
  i, j,           \* loop counters of the row / column loops
  row_frames,     \* annotated frames of the row being sampled
  rows,           \* row images
  grid_image,     \* None or the final grid
  fs,             \* root -> content of <root>_thumbnail.png
  fsAtStart,      \* history: fs when the current call started
  attempts,       \* history: frame indices passed to cap.set, in order
  mismatchRows,   \* history: rows whose frames did not share one shape
  target,         \* find_closest_numbers argument <<num, den>> (GridSpec)
  closest_pair,   \* find_closest_numbers result (GridSpec)
  gpc             \* GridSpec position: "call", "done"

walkerVars == <<files, video_files, idx, wpc, finished>>
localVars  == <<fps, total_frames, width, grid_size, frame_interval,
                current_frame, i, j, row_frames, rows, grid_image>>
histVars   == <<fsAtStart, attempts, mismatchRows>>
gridVars   == <<target, closest_pair, gpc>>
vars == <<walkerVars, state, video_name, cap, localVars, fs, histVars, gridVars>>

----------------------------------------------------------------------------
(* Bounds *)
MaxFiles == 2
MaxNum == 40
MaxDen == 3

(* Program constants *)
MinWidth == 400
SecondsPerMinute == 60

----------------------------------------------------------------------------
(* Values *)
None == [kind |-> "none", shape |-> <<0, 0, 0>>]
NoFile == None
OldFile == [kind |-> "old", shape |-> <<0, 0, 0>>]
BlackImage == [kind |-> "black", shape |-> <<1, 1, 3>>]
Image(s) == [kind |-> "grid", shape |-> s]

Max(a, b) == IF a >= b THEN a ELSE b
Min(a, b) == IF a <= b THEN a ELSE b
Abs(a) == IF a >= 0 THEN a ELSE -a

FileNames ==
  { [root |-> "a", ext |-> ".mp4"], [root |-> "a", ext |-> ".avi"],
    [root |-> "b", ext |-> ".MKV"], [root |-> "n", ext |-> ".txt"] }

Lower(s) == IF s = ".MKV" THEN ".mkv" ELSE s

VideoSuffixes == {".mp4", ".avi", ".mkv", ".mov", ".m4v"}

IsVideoFile(f) == Lower(f.ext) \in VideoSuffixes

ThumbRoots == { f.root : f \in { g \in FileNames : IsVideoFile(g) } }

NoRepeat(s) == \A p, q \in 1..Len(s) : p # q => s[p] # s[q]

Listings ==
  { s \in UNION { [1..n -> FileNames] : n \in 1..MaxFiles } : NoRepeat(s) }

(* What the decoder can report for a video: frame count, rate, width *)
Metas ==
  { [total |-> 0,   fps |-> 30, width |-> 400],
    [total |-> 900, fps |-> 0,  width |-> 400],
    [total |-> 900, fps |-> 30, width |-> 1000],
    [total |-> 182, fps |-> 2,  width |-> 400],
    [total |-> 366, fps |-> 2,  width |-> 400] }

FrameShapes == { <<100, 400, 3>>, <<101, 400, 3>> }

ReadOutcomes ==
  { [kind |-> "eof", shape |-> <<0, 0, 0>>],
    [kind |-> "error", shape |-> <<0, 0, 0>>] }
  \cup { [kind |-> "frame", shape |-> s] : s \in FrameShapes }

TerminalStates ==
  {"SkippedExisting", "OpenFailed", "Persisted", "Placeholder", "EmptyGrid"}

----------------------------------------------------------------------------
(* find_closest_numbers *)

\* int(target ** 0.5) for target = num/den
ISqrt(num, den) ==
  CHOOSE s \in 0..num : s * s * den <= num /\ (s + 1) * (s + 1) * den > num

\* Python round(a / b): round half to even
PyRound(a, b) ==
  LET q == a \div b
      r == a % b
  IN IF 2 * r < b THEN q
     ELSE IF 2 * r > b THEN q + 1
     ELSE IF q % 2 = 0 THEN q ELSE q + 1

OrderPairSwapped(a, b) == <<a, b>>

OrderPair(a, b) == <<Max(a, b), Min(a, b)>>

Inf == -1

RECURSIVE FindLoop(_, _, _, _, _, _)
FindLoop(num, den, k, last, pair, diff) ==
  IF k > last THEN pair
  ELSE LET jj == PyRound(num, den * k)
           difference == Abs(k - jj)
       IN IF diff = Inf \/ difference < diff
          THEN FindLoop(num, den, k + 1, last, OrderPair(k, jj), difference)
          ELSE FindLoop(num, den, k + 1, last, pair, diff)

find_closest_numbers(num, den) ==
  FindLoop(num, den, 1, ISqrt(num, den) + 1, <<0, 0>>, Inf)

\* the pairs (i, round(target / i)) the loop tests
TestedPairs(num, den) ==
  { <<k, PyRound(num, den * k)>> : k \in 1..(ISqrt(num, den) + 1) }

----------------------------------------------------------------------------
(* Frames and concatenation *)

check_frame_dimensions(frames) ==
  Cardinality({ frames[k].shape : k \in 1..Len(frames) }) = 1

\* lines 71-76: resize to the target width, keeping the aspect ratio
Resize(shape, cols, w) ==
  LET target_width == Max(MinWidth, w \div cols)
      target_height == (target_width * shape[1]) \div shape[2]
  IN <<target_height, target_width, shape[3]>>

\* line 79-80: the arguments handed to timedelta
Timestamp(n, f) == [seconds |-> n \div f, milliseconds |-> n % f]

Annotate(shape, n, f, cols, w) ==
  [shape |-> Resize(shape, cols, w), index |-> n, ts |-> Timestamp(n, f)]

RECURSIVE SumWidth(_)
SumWidth(frames) ==
  IF frames = <<>> THEN 0 ELSE frames[1].shape[2] + SumWidth(Tail(frames))

RECURSIVE SumHeight(_)
SumHeight(imgs) ==
  IF imgs = <<>> THEN 0 ELSE imgs[1].shape[1] + SumHeight(Tail(imgs))

\* cv2.hconcat accepts matrices with the same number of rows and type
HconcatOK(frames) ==
  \A k \in 1..Len(frames) :
     /\ frames[k].shape[1] = frames[1].shape[1]
     /\ frames[k].shape[3] = frames[1].shape[3]

hconcat(frames) ==
  Image(<<frames[1].shape[1], SumWidth(frames), frames[1].shape[3]>>)

\* cv2.vconcat accepts matrices with the same number of columns and type
VconcatOK(imgs) ==
  \A k \in 1..Len(imgs) :
     /\ imgs[k].shape[2] = imgs[1].shape[2]
     /\ imgs[k].shape[3] = imgs[1].shape[3]

vconcat(imgs) ==
  Image(<<SumHeight(imgs), imgs[1].shape[2], imgs[1].shape[3]>>)

\* line 111: the shapes of the elements of rows[0], i.e. of its pixel lines
RowSliceShapes(img) ==
  { <<img.shape[2], img.shape[3]>> : k \in 1..img.shape[1] }

ThumbnailExistsNever(f, name) == FALSE

ThumbnailExists(f, name) == f[name] # NoFile

save_black_image(f, name) == [f EXCEPT ![name] = BlackImage]

NextFrameOnSuccess(cur, interval, ret) ==
  IF ret THEN cur + interval ELSE cur

NextFrame(cur, interval, ret) == cur + interval

----------------------------------------------------------------------------
(* Initial states *)

ResetLocals ==
  /\ fps' = 0 /\ total_frames' = 0 /\ width' = 0
  /\ grid_size' = <<0, 0>> /\ frame_interval' = 0 /\ current_frame' = 0
  /\ i' = 0 /\ j' = 0
  /\ row_frames' = <<>> /\ rows' = <<>> /\ grid_image' = None

InitLocals ==
  /\ fps = 0 /\ total_frames = 0 /\ width = 0
  /\ grid_size = <<0, 0>> /\ frame_interval = 0 /\ current_frame = 0
  /\ i = 0 /\ j = 0
  /\ row_frames = <<>> /\ rows = <<>> /\ grid_image = None

InitPipeline ==
  /\ video_files = <<>> /\ idx = 1 /\ wpc = "list" /\ finished = <<>>
  /\ state = "Idle" /\ video_name = "" /\ cap = "none"
  /\ InitLocals
  /\ fsAtStart = fs /\ attempts = <<>> /\ mismatchRows = {}

Init ==
  /\ files \in Listings
  /\ fs \in [ThumbRoots -> {NoFile, OldFile}]
  /\ InitPipeline
  /\ target = <<1, 1>> /\ closest_pair = <<0, 0>> /\ gpc = "done"

----------------------------------------------------------------------------
(* process_videos_in_directory *)

\* lines 163-169
ListDirectory ==
  /\ wpc = "list"
  /\ video_files' = SelectSeq(files, IsVideoFile)
  /\ wpc' = "loop"
  /\ UNCHANGED <<files, idx, finished, state, video_name, cap, localVars,
                 fs, histVars, gridVars>>

\* lines 172-179 and 14-17: the loop body calls create_thumbnail_grid
CallPipeline ==
  /\ wpc = "loop" /\ state = "Idle" /\ idx <= Len(video_files)
  /\ video_name' = video_files[idx].root
  /\ state' = "Start"
  /\ cap' = "none"
  /\ fsAtStart' = fs
  /\ UNCHANGED <<walkerVars, localVars, fs, attempts, mismatchRows, gridVars>>

\* line 180 and the loop increment: the call returned
Return ==
  /\ wpc = "loop" /\ state \in TerminalStates
  /\ finished' = Append(finished, video_files[idx])
  /\ idx' = idx + 1
  /\ state' = "Idle" /\ video_name' = "" /\ cap' = "none"
  /\ ResetLocals
  /\ fsAtStart' = fs /\ attempts' = <<>> /\ mismatchRows' = {}
  /\ UNCHANGED <<files, video_files, wpc, fs, gridVars>>

\* the for loop is exhausted
WalkerDone ==
  /\ wpc = "loop" /\ state = "Idle" /\ idx > Len(video_files)
  /\ wpc' = "done"
  /\ UNCHANGED <<files, video_files, idx, finished, state, video_name, cap,
                 localVars, fs, histVars, gridVars>>

----------------------------------------------------------------------------
(* create_thumbnail_grid *)

\* lines 19-21
CheckExisting ==
  /\ state = "Start"
  /\ state' = IF ThumbnailExists(fs, video_name)
              THEN "SkippedExisting" ELSE "Opening"
  /\ UNCHANGED <<walkerVars, video_name, cap, localVars, fs, histVars,
                 gridVars>>

\* lines 24-29
OpenSource ==
  /\ state = "Opening"
  /\ \E ok \in BOOLEAN :
        IF ok THEN cap' = "open" /\ state' = "Opened"
              ELSE cap' = "failed" /\ state' = "OpenFailed"
  /\ UNCHANGED <<walkerVars, video_name, localVars, fs, histVars, gridVars>>

RejectZeroMetaWritesBlack ==
  /\ fs' = save_black_image(fs, video_name)
  /\ cap' = "released"
  /\ state' = "OpenFailed"

\* lines 37-40
RejectZeroMeta ==
  /\ fs' = fs
  /\ cap' = "released"
  /\ state' = "OpenFailed"

\* lines 43-48: the duration in minutes, clamped to 1, as <<num, den>>
VideoLengthMinutes(total, f) ==
  IF total < f * SecondsPerMinute THEN <<1, 1>>
  ELSE <<total, f * SecondsPerMinute>>

\* lines 33-55
ReadMetaAndPlan ==
  /\ state = "Opened"
  /\ \E m \in Metas :
       /\ fps' = m.fps /\ total_frames' = m.total /\ width' = m.width
       /\ IF m.fps = 0 \/ m.total = 0
          THEN /\ RejectZeroMeta
               /\ UNCHANGED <<grid_size, frame_interval>>
          ELSE LET len == VideoLengthMinutes(m.total, m.fps)
                   g == find_closest_numbers(len[1], len[2])
               IN /\ grid_size' = g
                  /\ frame_interval' = Max(1, m.total \div (g[1] * g[2]))
                  /\ state' = "Sampling"
                  /\ UNCHANGED <<cap, fs>>
  /\ UNCHANGED <<walkerVars, video_name, current_frame, i, j, row_frames,
                 rows, grid_image, histVars, gridVars>>

\* lines 130-137: except cv2.error at the pipeline boundary
LibraryErrorHandler ==
  /\ fs' = save_black_image(fs, video_name)
  /\ cap' = "released"
  /\ state' = "Placeholder"

\* lines 61-93: one pass of the column loop; cv2.error stands for an error
\* raised by a cv2 call of the loop body after the seek
SampleFrame ==
  /\ state = "Sampling" /\ j < grid_size[1]
  /\ attempts' = Append(attempts, current_frame)
  /\ \E r \in ReadOutcomes :
       IF r.kind = "error"
       THEN /\ LibraryErrorHandler
            /\ UNCHANGED <<row_frames, current_frame, j>>
       ELSE /\ row_frames' =
                 IF r.kind = "frame"
                 THEN Append(row_frames,
                             Annotate(r.shape, current_frame, fps,
                                      grid_size[1], width))
                 ELSE row_frames
            /\ current_frame' =
                 NextFrame(current_frame, frame_interval, r.kind = "frame")
            /\ j' = j + 1
            /\ UNCHANGED <<fs, cap, state>>
  /\ UNCHANGED <<walkerVars, video_name, fps, total_frames, width, grid_size,
                 frame_interval, i, rows, grid_image, fsAtStart, mismatchRows,
                 gridVars>>

\* lines 99-104: except cv2.error around hconcat
HconcatErrorHandler ==
  /\ fs' = save_black_image(fs, video_name)
  /\ state' = "Placeholder"
  /\ UNCHANGED <<cap, rows, i, j, row_frames>>

\* lines 59-60: the row loop moves on, or ends
NextRow ==
  /\ i' = i + 1 /\ j' = 0 /\ row_frames' = <<>>
  /\ state' = IF i + 1 = grid_size[2] THEN "Assembling" ELSE "Sampling"
  /\ UNCHANGED <<fs, cap>>

\* lines 95-104
HconcatRow ==
  /\ state = "Sampling" /\ j = grid_size[1]
  /\ mismatchRows' =
       IF row_frames # <<>> /\ ~check_frame_dimensions(row_frames)
       THEN mismatchRows \cup {i} ELSE mismatchRows
  /\ IF row_frames # <<>> /\ check_frame_dimensions(row_frames)
     THEN \E err \in BOOLEAN :
            IF err \/ ~HconcatOK(row_frames)
            THEN HconcatErrorHandler
            ELSE rows' = Append(rows, hconcat(row_frames)) /\ NextRow
     ELSE rows' = rows /\ NextRow
  /\ UNCHANGED <<walkerVars, video_name, fps, total_frames, width, grid_size,
                 frame_interval, current_frame, grid_image, fsAtStart,
                 attempts, gridVars>>

VconcatErrorHandlerRaises ==
  /\ fs' = fs
  /\ state' = "Crashed"
  /\ UNCHANGED <<cap, grid_image>>

\* lines 114-119: except cv2.error around vconcat
VconcatErrorHandler ==
  /\ fs' = save_black_image(fs, video_name)
  /\ state' = "Placeholder"
  /\ UNCHANGED <<cap, grid_image>>

\* lines 106-119
VconcatRows ==
  /\ state = "Assembling"
  /\ IF rows # <<>> /\ Cardinality(RowSliceShapes(rows[1])) = 1
     THEN \E err \in BOOLEAN :
            IF err \/ ~VconcatOK(rows)
            THEN VconcatErrorHandler
            ELSE /\ grid_image' = vconcat(rows)
                 /\ state' = "Finishing"
                 /\ UNCHANGED <<fs, cap>>
     ELSE /\ state' = "Finishing"
          /\ UNCHANGED <<fs, cap, grid_image>>
  /\ UNCHANGED <<walkerVars, video_name, fps, total_frames, width, grid_size,
                 frame_interval, current_frame, i, j, row_frames, rows,
                 histVars, gridVars>>

\* lines 121-129
Finish ==
  /\ state = "Finishing"
  /\ cap' = "released"
  /\ IF grid_image # None
     THEN /\ fs' = [fs EXCEPT ![video_name] = grid_image]
          /\ state' = "Persisted"
     ELSE /\ fs' = fs
          /\ state' = "EmptyGrid"
  /\ UNCHANGED <<walkerVars, video_name, localVars, histVars, gridVars>>

Next ==
  \/ ListDirectory
  \/ CallPipeline
  \/ CheckExisting
  \/ OpenSource
  \/ ReadMetaAndPlan
  \/ SampleFrame
  \/ HconcatRow
  \/ VconcatRows
  \/ Finish
  \/ Return
  \/ WalkerDone

Spec == Init /\ [][Next]_vars

\* the single thread always takes its next step
FairSpec == Spec /\ WF_vars(Next)

----------------------------------------------------------------------------
(* find_closest_numbers applied to durations num/den >= 1 *)

InitGrid ==
  /\ files = <<>>
  /\ fs = [r \in ThumbRoots |-> NoFile]
  /\ InitPipeline
  /\ target \in { t \in (1..MaxNum) \X (1..MaxDen) : t[1] >= t[2] }
  /\ closest_pair = <<0, 0>>
  /\ gpc = "call"

ComputeGrid ==
  /\ gpc = "call"
  /\ closest_pair' = find_closest_numbers(target[1], target[2])
  /\ gpc' = "done"
  /\ UNCHANGED <<walkerVars, state, video_name, cap, localVars, fs, histVars,
                 target>>

NextGrid == ComputeGrid

GridSpec == InitGrid /\ [][NextGrid]_vars

----------------------------------------------------------------------------
(* Properties *)

Sampled ==
  {"Sampling", "Assembling", "Finishing", "Persisted", "Placeholder",
   "EmptyGrid"}

UniformRows == \A p, q \in 1..Len(rows) : rows[p].shape = rows[q].shape

\* C1: every call that opened the video source has released it when it
\* returns, on every exit path (as stated; the code violates it)
C1_ReleasedOnEveryExit ==
  state \in TerminalStates => cap # "open"

\* C2: every call that passes the skip, open and metadata checks ends in
\* Persisted or Placeholder with a file at the output path: the grid if one
\* was produced, otherwise the black placeholder (as stated; the code
\* violates it)
C2_GridOrPlaceholderWritten ==
  (state \in TerminalStates \ {"SkippedExisting", "OpenFailed"}) =>
     /\ state \in {"Persisted", "Placeholder"}
     /\ fs[video_name] =
          IF grid_image # None THEN grid_image ELSE BlackImage

\* C3: a row whose frames do not share one shape makes the whole video fall
\* back to the black placeholder, and no grid of the remaining rows is
\* persisted (as stated; the code violates it)
C3_MismatchedRowGivesPlaceholder ==
  (state \in TerminalStates /\ mismatchRows # {}) =>
     /\ state = "Placeholder"
     /\ fs[video_name] = BlackImage

\* C4: when the thumbnail exists as the call starts, the call only reaches
\* SkippedExisting: the source is never opened, nothing is sampled and the
\* file system is left as it was
C4_ExistingThumbnailUntouched ==
  (state # "Idle" /\ fsAtStart[video_name] # NoFile) =>
     /\ state \in {"Start", "SkippedExisting"}
     /\ cap = "none"
     /\ attempts = <<>>
     /\ fs = fsAtStart

\* C4 witness: the second of two videos with the same root is skipped
\* because the first one's grid is already there
C4_Witness ==
  /\ state = "SkippedExisting"
  /\ idx = 2
  /\ video_files[1].root = video_files[2].root
  /\ fs[video_name].kind = "grid"

\* C5: a source that cannot be opened, or that reports a zero frame rate or
\* a zero frame count, ends in OpenFailed with nothing sampled and nothing
\* written
C5_OpenFailedWritesNothing ==
  /\ cap = "failed" => state = "OpenFailed"
  /\ state \in Sampled => (fps # 0 /\ total_frames # 0 /\ cap # "failed")
  /\ state = "OpenFailed" =>
       /\ attempts = <<>> /\ row_frames = <<>> /\ rows = <<>>
       /\ fs = fsAtStart
       /\ fs[video_name] = NoFile

\* C5 witness: a rejected video with a zero frame count
C5_Witness ==
  state = "OpenFailed" /\ cap = "released" /\ total_frames = 0

C6_InListingOrder ==
  /\ Len(finished) <= Len(video_files)
  /\ \A k \in 1..Len(finished) : finished[k] = video_files[k]
  /\ idx = Len(finished) + 1
  /\ state # "Idle" => video_name = video_files[idx].root

C6_AllProcessed ==
  /\ wpc = "done"
  /\ finished = video_files
  /\ \A k \in 1..Len(files) :
        IsVideoFile(files[k]) => \E n \in 1..Len(finished) : finished[n] = files[k]

\* C6: whatever each video's outcome, the walker finishes every listed video
\* file, in listing order, one at a time
C6_BatchRunsToCompletion ==
  [](wpc # "list" => C6_InListingOrder) /\ <>C6_AllProcessed

\* C6 witness: the batch ended although a video fell back to the placeholder
C6_Witness ==
  /\ wpc = "done"
  /\ Len(finished) >= 2
  /\ \E r \in ThumbRoots : fs[r] = BlackImage

\* C7 as stated: the product c*r is as close to d as the product of any
\* tested pair (the code violates it at d = 3)
C7_ClosestProduct ==
  gpc = "done" =>
     /\ closest_pair[1] >= closest_pair[2] /\ closest_pair[2] >= 1
     /\ \A p \in TestedPairs(target[1], target[2]) :
          Abs(p[1] * p[2] * target[2] - target[1]) >=
          Abs(closest_pair[1] * closest_pair[2] * target[2] - target[1])

\* C7 amended: for d >= 1 the result (c, r) has c >= r >= 1, is a tested
\* pair put in descending order, and no tested pair (i, round(d / i)) has
\* |i - j| smaller than c - r
C7_MostSquarePair ==
  gpc = "done" =>
     /\ closest_pair[1] >= closest_pair[2] /\ closest_pair[2] >= 1
     /\ \E p \in TestedPairs(target[1], target[2]) :
          closest_pair = <<Max(p[1], p[2]), Min(p[1], p[2])>>
     /\ \A p \in TestedPairs(target[1], target[2]) :
          Abs(p[1] - p[2]) >= closest_pair[1] - closest_pair[2]

\* C7 witness: d = 3 gives the 2 x 2 grid although 1 x 3 has product 3
C7_Witness ==
  gpc = "done" /\ target = <<3, 1>> /\ closest_pair = <<2, 2>>

\* C8: a grid is persisted only if there is a row image and all row images
\* have the same shape; row images that differ give the placeholder (as
\* stated; the code violates it)
C8_GridOnlyFromUniformRows ==
  /\ state = "Persisted" => (rows # <<>> /\ UniformRows)
  /\ (state \in TerminalStates /\ i = grid_size[2] /\ rows # <<>>
        /\ ~UniformRows) => fs[video_name] = BlackImage

C10_TimestampIsFrameTime ==
  \A k \in 1..Len(row_frames) :
     LET fr == row_frames[k]
     IN /\ fr.ts.seconds = fr.index \div fps
        /\ (fr.ts.seconds * 1000 + fr.ts.milliseconds) * fps = fr.index * 1000

====
